---- MODULE Spec2Model ----
(***************************************************************************)
(* A model of bot.py: the /sendms message relay with its per-user and      *)
(* per-guild cooldown maps, and the /changenick nickname batch.            *)
(*                                                                         *)
(* Time.  The event loop's clock (asyncio.get_event_loop().time()) is a    *)
(* float of seconds; it is modelled as an integer count of ticks,          *)
(* TicksPerSec ticks to the second, so that fractions of a second exist.   *)
(*                                                                         *)
(* Strings.  A str is a sequence of runs <<c, n>> (n >= 1 copies of the    *)
(* character c), so that a 2001-unit payload is one run.  Optional[str]    *)
(* is <<>> (None) or <<s>>.                                                *)
(*                                                                         *)
(* Tasks.  Each command invocation is a coroutine; a task slot t carries   *)
(* one invocation at a time from its first line to its return, and is      *)
(* suspended only at the awaits of the source.  Interaction responses      *)
(* (response.send_message, followup.send, defer) are taken to be           *)
(* delivered.                                                              *)
(***************************************************************************)
EXTENDS Integers, Sequences, FiniteSets, TLC

VARIABLES now, user_last, guild_last, pc, inv, msgs, idx, sent, exc, resp, wake, ninv,
          guild, nicks, nk

vars == <<now, user_last, guild_last, pc, inv, msgs, idx, sent, exc, resp, wake, ninv,
          guild, nicks, nk>>

\* what only /sendms touches, and what only /changenick touches
relayvars == <<user_last, guild_last, msgs, idx, sent, exc>>
nickvars == <<guild, nicks, nk>>

(***************************************************************************)
(* Program constants                                                       *)
(***************************************************************************)
USER_COOLDOWN_SECS == 20
GUILD_COOLDOWN_SECS == 5
MAX_MSG_LEN == 2000
SEND_DELAY_TENTHS == 7

(***************************************************************************)
(* Bounds of the model                                                     *)
(***************************************************************************)
TicksPerSec == 2
ExtraSecs == 1
MaxInvocations == 2

UserWindowTicks == USER_COOLDOWN_SECS * TicksPerSec
GuildWindowTicks == GUILD_COOLDOWN_SECS * TicksPerSec
MaxClock == (2 * USER_COOLDOWN_SECS + ExtraSecs) * TicksPerSec
\* asyncio.sleep(0.7) lets at least this many whole ticks go by
SendDelayTicks == (SEND_DELAY_TENTHS * TicksPerSec) \div 10

(***************************************************************************)
(* Values                                                                  *)
(***************************************************************************)
None == -1
NoGuild == -1
Whitespace == {" ", "\t"}

Str(c, n) == << <<c, n>> >>
Some(s) == <<s>>
NoStr == <<>>

HELLO == << <<"h", 1>>, <<"e", 1>>, <<"l", 2>>, <<"o", 1>> >>
PADDED == << <<" ", 1>>, <<"h", 1>>, <<"i", 1>>, <<" ", 2>> >>
BLANKS == << <<" ", 2>>, <<"\t", 1>> >>
EMPTY == <<>>
LONG == Str("a", MAX_MSG_LEN + 1)
LONGPAD == << <<" ", MAX_MSG_LEN>>, <<"a", 1>> >>

Payloads == {EMPTY, BLANKS, HELLO, PADDED, LONG, LONGPAD}
OptPayloads == {NoStr} \cup {Some(s) : s \in Payloads}
ErrorDetails == {"HTTPException"}

Users == {101, 102}
GuildIds == {NoGuild, 201}
OTHER_GUILD_ID == 202

(***************************************************************************)
(* Guilds                                                                  *)
(* A member is [id, bot, rank, perm, edit, fresh]: rank is                 *)
(* top_role.position, perm is guild_permissions.manage_nicknames, edit is  *)
(* what the platform answers to a nickname edit of this member ("ok",      *)
(* "Forbidden", or another error), and fresh tells whether the cached      *)
(* member already shows the new nickname when an accepted edit returns.    *)
(***************************************************************************)
BOT_ID == 900
GUILD_ID == 201
BOT_RANK == 2
MAX_CHANGE == 50
MAX_NAMES_SHOWN == 20
MAX_FAILS_SHOWN == 40
NICK_DELAY_HUNDREDTHS == 25

\* members past the cap in the large guilds
BigExtra == 1

\* asyncio.sleep(0.25) lets at least this many whole ticks go by
NickDelayTicks == (NICK_DELAY_HUNDREDTHS * TicksPerSec) \div 100

DisplayName(i) == <<"user", i>>
Nicknames == {<<"nick", 1>>}

Member(i, b, r, p, e, f) ==
    [id |-> i, bot |-> b, rank |-> r, perm |-> p, edit |-> e, fresh |-> f]

Plain(i) == Member(i, FALSE, BOT_RANK - 1, FALSE, "ok", TRUE)
Stale(i) == Member(i, FALSE, BOT_RANK - 1, FALSE, "ok", FALSE)
EqualRank(i) == Member(i, FALSE, BOT_RANK, FALSE, "ok", TRUE)
HigherRank(i) == Member(i, FALSE, BOT_RANK + 1, TRUE, "ok", TRUE)
Denied(i) == Member(i, FALSE, BOT_RANK - 1, FALSE, "Forbidden", TRUE)
Broken(i) == Member(i, FALSE, BOT_RANK - 1, FALSE, "HTTPException", TRUE)
OtherBot(i) == Member(i, TRUE, BOT_RANK - 1, FALSE, "ok", TRUE)
BotMember(p) == Member(BOT_ID, TRUE, BOT_RANK, p, "ok", TRUE)

MemberKinds(i) ==
    {Plain(i), Stale(i), EqualRank(i), HigherRank(i), Denied(i), Broken(i), OtherBot(i)}

Guild(owner, members) == [id |-> GUILD_ID, owner_id |-> owner, members |-> members]

EmptyGuild == Guild(101, <<>>)

\* the bot's own member (cached or not, with or without the permission) and
\* up to two other members, owned by one of them or by someone else
SmallGuilds ==
    { Guild(o, b \o m1 \o m2) :
        o \in {101, 102, 103},
        b \in {<<>>} \cup {<<BotMember(p)>> : p \in BOOLEAN},
        m1 \in {<<>>} \cup {<<m>> : m \in MemberKinds(101)},
        m2 \in {<<>>} \cup {<<m>> : m \in MemberKinds(102)} }

\* the i-th member of a large guild whose members mostly can be renamed
MixedMember(i) ==
    CASE i % 10 = 3 -> OtherBot(100 + i)
      [] i % 10 = 5 -> Denied(100 + i)
      [] i % 10 = 7 -> EqualRank(100 + i)
      [] i % 10 = 9 -> Broken(100 + i)
      [] OTHER -> Plain(100 + i)

\* the i-th member of a large guild whose members mostly outrank the bot
RankedMember(i) ==
    IF i % 10 = 4 THEN Plain(100 + i) ELSE HigherRank(100 + i)

BigSize == MAX_CHANGE + BigExtra

\* MAX_CHANGE + BigExtra members that are no bots, and the bot among them
BigGuilds ==
    { Guild(102, <<BotMember(TRUE)>> \o [i \in 1..(BigSize + BigSize \div 10 + 1) |-> MixedMember(i)]),
      Guild(101, [i \in 1..BigSize |-> RankedMember(i)] \o <<BotMember(TRUE)>>) }

NoBatch == [targets |-> <<>>, k |-> 0, success |-> <<>>, failed |-> <<>>,
            edits |-> <<>>, naps |-> <<>>]


RECURSIVE StrLen(_)
StrLen(s) == IF s = <<>> THEN 0 ELSE Head(s)[2] + StrLen(Tail(s))

\* Faulty variant: the payload is not cut.
Slice_Whole(s, k) == s

\* s[:k]
RECURSIVE Slice(_, _)
Slice(s, k) ==
    IF s = <<>> \/ k <= 0 THEN <<>>
    ELSE IF Head(s)[2] <= k THEN <<Head(s)>> \o Slice(Tail(s), k - Head(s)[2])
    ELSE << <<Head(s)[1], k>> >>

RECURSIVE LStrip(_)
LStrip(s) ==
    IF s = <<>> THEN <<>>
    ELSE IF Head(s)[1] \in Whitespace THEN LStrip(Tail(s))
    ELSE s

RECURSIVE RStrip(_)
RStrip(s) ==
    IF s = <<>> THEN <<>>
    ELSE IF s[Len(s)][1] \in Whitespace THEN RStrip(SubSeq(s, 1, Len(s) - 1))
    ELSE s

\* str.strip()
Strip(s) == RStrip(LStrip(s))

\* dict.get(key, 0)
Get(d, key) == IF key \in DOMAIN d THEN d[key] ELSE 0

\* Faulty variant: the assignment drops the other entries.
Put_Alone(d, key, value) == [k \in {key} |-> value]

\* d[key] = value
Put(d, key, value) == [k \in DOMAIN d \cup {key} |-> IF k = key THEN value ELSE d[k]]

\* int(x) of a positive number of seconds given in ticks
PyInt(ticks) == ticks \div TicksPerSec

\* the truth value of an Optional[int]
Truthy(x) == x # None /\ x # 0

(***************************************************************************)
(* Cooldown helpers                                                        *)
(***************************************************************************)
\* Faulty variant: the window's end (remaining = 0) still counts as inside it.
is_on_user_cooldown_Inclusive(user_id) ==
    LET last == Get(user_last, user_id)
        remaining == USER_COOLDOWN_SECS * TicksPerSec - (now - last)
    IN  IF remaining >= 0 THEN PyInt(remaining) ELSE None

is_on_user_cooldown(user_id) ==
    LET last == Get(user_last, user_id)
        remaining == USER_COOLDOWN_SECS * TicksPerSec - (now - last)
    IN  IF remaining > 0 THEN PyInt(remaining) ELSE None

is_on_guild_cooldown(guild_id) ==
    LET last == Get(guild_last, guild_id)
        remaining == GUILD_COOLDOWN_SECS * TicksPerSec - (now - last)
    IN  IF remaining > 0 THEN PyInt(remaining) ELSE None

(***************************************************************************)
(* /sendms                                                                 *)
(***************************************************************************)
Response(kind, n, detail) == [kind |-> kind, n |-> n, detail |-> detail]

NoInv == [cmd |-> "none", uid |-> 0, guild_id |-> NoGuild, args |-> <<>>]

\* interaction.guild_id or 0
OrZero(guild_id) == IF guild_id = NoGuild THEN 0 ELSE guild_id

\* Faulty variant: `if m:`, a whitespace-only payload is kept.
Retained_NoStrip(m) == m # NoStr /\ m[1] # EMPTY

\* if m and m.strip()
Retained(m) == m # NoStr /\ m[1] # EMPTY /\ Strip(m[1]) # EMPTY

\* for m in (m1, m2, m3): if m and m.strip(): msgs.append(m[:2000])
RECURSIVE BuildMessages(_)
BuildMessages(ms) ==
    IF ms = <<>> THEN <<>>
    ELSE (IF Retained(Head(ms)) THEN <<Slice(Head(ms)[1], MAX_MSG_LEN)>> ELSE <<>>)
         \o BuildMessages(Tail(ms))

\* Faulty variant: the cooldowns are recorded when the check is passed.
sendms_Reserving(t, uid, guild_id, m1, m2, m3) ==
    /\ pc[t] = "idle"
    /\ ninv < MaxInvocations
    /\ ninv' = ninv + 1
    /\ inv' = [inv EXCEPT ![t] = [cmd |-> "sendms", uid |-> uid,
                                  guild_id |-> guild_id, args |-> <<m1, m2, m3>>]]
    /\ LET gid == OrZero(guild_id)
           user_wait == is_on_user_cooldown(uid)
           guild_wait == is_on_guild_cooldown(gid)
           built == BuildMessages(<<m1, m2, m3>>)
       IN  IF Truthy(user_wait)
           THEN /\ resp' = [resp EXCEPT ![t] = <<Response("user_cooldown", user_wait, "")>>]
                /\ pc' = [pc EXCEPT ![t] = "done"]
                /\ UNCHANGED <<msgs, user_last, guild_last>>
           ELSE IF Truthy(guild_wait)
           THEN /\ resp' = [resp EXCEPT ![t] = <<Response("guild_cooldown", 0, "")>>]
                /\ pc' = [pc EXCEPT ![t] = "done"]
                /\ UNCHANGED <<msgs, user_last, guild_last>>
           ELSE IF built = <<>>
           THEN /\ resp' = [resp EXCEPT ![t] = <<Response("no_valid", 0, "")>>]
                /\ pc' = [pc EXCEPT ![t] = "done"]
                /\ UNCHANGED <<msgs, user_last, guild_last>>
           ELSE /\ resp' = [resp EXCEPT ![t] = <<Response("sending", 0, "")>>]
                /\ pc' = [pc EXCEPT ![t] = "send"]
                /\ msgs' = [msgs EXCEPT ![t] = built]
                /\ user_last' = Put(user_last, uid, now)
                /\ guild_last' = Put(guild_last, gid, now)
    /\ UNCHANGED <<now, idx, sent, exc, wake, nickvars>>

\* Lines 67-93: from the call to the first response, with no await between.
sendms(t, uid, guild_id, m1, m2, m3) ==
    /\ pc[t] = "idle"
    /\ ninv < MaxInvocations
    /\ ninv' = ninv + 1
    /\ inv' = [inv EXCEPT ![t] = [cmd |-> "sendms", uid |-> uid,
                                  guild_id |-> guild_id, args |-> <<m1, m2, m3>>]]
    /\ LET gid == OrZero(guild_id)
           user_wait == is_on_user_cooldown(uid)
           guild_wait == is_on_guild_cooldown(gid)
           built == BuildMessages(<<m1, m2, m3>>)
       IN  IF Truthy(user_wait)
           THEN /\ resp' = [resp EXCEPT ![t] = <<Response("user_cooldown", user_wait, "")>>]
                /\ pc' = [pc EXCEPT ![t] = "done"]
                /\ UNCHANGED msgs
           ELSE IF Truthy(guild_wait)
           THEN /\ resp' = [resp EXCEPT ![t] = <<Response("guild_cooldown", 0, "")>>]
                /\ pc' = [pc EXCEPT ![t] = "done"]
                /\ UNCHANGED msgs
           ELSE IF built = <<>>
           THEN /\ resp' = [resp EXCEPT ![t] = <<Response("no_valid", 0, "")>>]
                /\ pc' = [pc EXCEPT ![t] = "done"]
                /\ UNCHANGED msgs
           ELSE /\ resp' = [resp EXCEPT ![t] = <<Response("sending", 0, "")>>]
                /\ pc' = [pc EXCEPT ![t] = "send"]
                /\ msgs' = [msgs EXCEPT ![t] = built]
    /\ UNCHANGED <<now, user_last, guild_last, idx, sent, exc, wake, nickvars>>

\* Line 96 returns, with a further payload to send: line 98 starts the sleep.
SendNext(t) ==
    /\ pc[t] = "send"
    /\ idx[t] < Len(msgs[t]) - 1
    /\ sent' = [sent EXCEPT ![t] = Append(@, msgs[t][idx[t] + 1])]
    /\ pc' = [pc EXCEPT ![t] = "sleep"]
    /\ wake' = [wake EXCEPT ![t] = now + SendDelayTicks]
    /\ UNCHANGED <<now, user_last, guild_last, inv, msgs, idx, exc, resp, ninv, nickvars>>

\* Line 98 returns: the loop goes on to the next payload.
SendWake(t) ==
    /\ pc[t] = "sleep"
    /\ now >= wake[t]
    /\ idx' = [idx EXCEPT ![t] = @ + 1]
    /\ pc' = [pc EXCEPT ![t] = "send"]
    /\ wake' = [wake EXCEPT ![t] = 0]
    /\ UNCHANGED <<now, user_last, guild_last, inv, msgs, sent, exc, resp, ninv, nickvars>>

\* Line 96 returns for the last payload: lines 100-102.
SendLast(t) ==
    /\ pc[t] = "send"
    /\ idx[t] = Len(msgs[t]) - 1
    /\ sent' = [sent EXCEPT ![t] = Append(@, msgs[t][idx[t] + 1])]
    /\ user_last' = Put(user_last, inv[t].uid, now)
    /\ guild_last' = Put(guild_last, OrZero(inv[t].guild_id), now)
    /\ resp' = [resp EXCEPT ![t] = Append(@, Response("sent", Len(msgs[t]), ""))]
    /\ pc' = [pc EXCEPT ![t] = "done"]
    /\ UNCHANGED <<now, inv, msgs, idx, exc, wake, ninv, nickvars>>

\* Faulty variant: the cooldowns are recorded although the send was refused.
SendForbidden_Recording(t) ==
    /\ pc[t] = "send"
    /\ exc' = [exc EXCEPT ![t] = "Forbidden"]
    /\ user_last' = Put(user_last, inv[t].uid, now)
    /\ guild_last' = Put(guild_last, OrZero(inv[t].guild_id), now)
    /\ resp' = [resp EXCEPT ![t] = Append(@, Response("forbidden", 0, ""))]
    /\ pc' = [pc EXCEPT ![t] = "done"]
    /\ UNCHANGED <<now, inv, msgs, idx, sent, wake, ninv, nickvars>>

\* Faulty variant: `except Exception` comes first and answers a Forbidden.
SendForbidden_AsGeneric(t) ==
    /\ pc[t] = "send"
    /\ exc' = [exc EXCEPT ![t] = "Forbidden"]
    /\ resp' = [resp EXCEPT ![t] = Append(@, Response("failed", 0, "Forbidden"))]
    /\ pc' = [pc EXCEPT ![t] = "done"]
    /\ UNCHANGED <<now, user_last, guild_last, inv, msgs, idx, sent, wake, ninv, nickvars>>

\* Line 96 raises discord.Forbidden: lines 103-104.
SendForbidden(t) ==
    /\ pc[t] = "send"
    /\ exc' = [exc EXCEPT ![t] = "Forbidden"]
    /\ resp' = [resp EXCEPT ![t] = Append(@, Response("forbidden", 0, ""))]
    /\ pc' = [pc EXCEPT ![t] = "done"]
    /\ UNCHANGED <<now, user_last, guild_last, inv, msgs, idx, sent, wake, ninv, nickvars>>

\* Line 96 raises another exception e: lines 105-106.
SendError(t, e) ==
    /\ pc[t] = "send"
    /\ exc' = [exc EXCEPT ![t] = e]
    /\ resp' = [resp EXCEPT ![t] = Append(@, Response("failed", 0, e))]
    /\ pc' = [pc EXCEPT ![t] = "done"]
    /\ UNCHANGED <<now, user_last, guild_last, inv, msgs, idx, sent, wake, ninv, nickvars>>

(***************************************************************************)
(* /changenick                                                             *)
(***************************************************************************)
\* guild.get_member(bot.user.id): <<>> (None) or <<the bot's member>>
GetBotMember(g) ==
    LET at == {j \in 1..Len(g.members) : g.members[j].id = BOT_ID}
    IN  IF at = {} THEN <<>> ELSE <<g.members[CHOOSE j \in at : TRUE]>>

\* [m for m in guild.members if not m.bot and m.id != bot.user.id]
IsCandidate(m) == ~m.bot /\ m.id # BOT_ID
Candidates(g) == SelectSeq(g.members, IsCandidate)

\* Faulty variant: the list of members is not cut.
Capped_Uncapped(members) == members

\* members[:MAX_CHANGE] when there are more than MAX_CHANGE
Capped(members) ==
    IF Len(members) > MAX_CHANGE THEN SubSeq(members, 1, MAX_CHANGE) ELSE members

\* Faulty variant: the list is shown whole.
FirstN_All(seq, n) == seq

\* seq[:n]
FirstN(seq, n) == SubSeq(seq, 1, IF Len(seq) < n THEN Len(seq) ELSE n)

Target(t) == nk[t].targets[nk[t].k + 1]

\* Faulty variant: `and` for `or`.
ActorAllowed_And(uid, actor_perm) == actor_perm /\ uid = guild.owner_id

\* interaction.user.guild_permissions.manage_nicknames
\*     or interaction.user.id == guild.owner_id
ActorAllowed(uid, actor_perm) == actor_perm \/ uid = guild.owner_id

\* not (bot_member is None or not bot_member.guild_permissions.manage_nicknames)
BotAllowed(bot_member) == ~(bot_member = <<>> \/ ~bot_member[1].perm)

\* Lines 118-135: from the call to the first response, with no await between.
changenick(t, uid, guild_id, actor_perm, nickname, member, change_many) ==
    /\ pc[t] = "idle"
    /\ ninv < MaxInvocations
    /\ ninv' = ninv + 1
    /\ inv' = [inv EXCEPT ![t] =
                 [cmd |-> "changenick", uid |-> uid, guild_id |-> guild_id,
                  args |-> [actor_perm |-> actor_perm, nickname |-> nickname,
                            member |-> member, change_many |-> change_many]]]
    /\ LET bot_member == GetBotMember(guild)
       IN  IF guild_id = NoGuild
           THEN /\ resp' = [resp EXCEPT ![t] = <<Response("guild_only", 0, "")>>]
                /\ pc' = [pc EXCEPT ![t] = "done"]
           ELSE IF ~ActorAllowed(uid, actor_perm)
           THEN /\ resp' = [resp EXCEPT ![t] = <<Response("need_actor_perm", 0, "")>>]
                /\ pc' = [pc EXCEPT ![t] = "done"]
           ELSE IF ~BotAllowed(bot_member)
           THEN /\ resp' = [resp EXCEPT ![t] = <<Response("need_bot_perm", 0, "")>>]
                /\ pc' = [pc EXCEPT ![t] = "done"]
           ELSE /\ resp' = [resp EXCEPT ![t] = <<Response("defer", 0, "")>>]
                /\ pc' = [pc EXCEPT ![t] = "nick_defer"]
    /\ UNCHANGED <<now, relayvars, wake, nickvars>>

\* Line 135 returns; lines 137-152 choose the targets.
NickBegin(t) ==
    /\ pc[t] = "nick_defer"
    /\ IF inv[t].args.change_many
       THEN /\ nk' = [nk EXCEPT ![t].targets = Capped(Candidates(guild))]
            /\ pc' = [pc EXCEPT ![t] = "nick_loop"]
            /\ UNCHANGED resp
       ELSE IF inv[t].args.member = <<>>
       THEN /\ resp' = [resp EXCEPT ![t] = Append(@, Response("need_member", 0, ""))]
            /\ pc' = [pc EXCEPT ![t] = "done"]
            /\ UNCHANGED nk
       ELSE /\ nk' = [nk EXCEPT ![t].targets = <<inv[t].args.member[1]>>]
            /\ pc' = [pc EXCEPT ![t] = "nick_loop"]
            /\ UNCHANGED resp
    /\ UNCHANGED <<now, relayvars, inv, wake, ninv, guild, nicks>>

\* Faulty variant: the owner is passed over without a record.
NickOwner_Silent(t) ==
    /\ pc[t] = "nick_loop"
    /\ nk[t].k < Len(nk[t].targets)
    /\ Target(t).id = guild.owner_id
    /\ nk' = [nk EXCEPT ![t].k = @ + 1]
    /\ UNCHANGED <<now, relayvars, pc, inv, resp, wake, ninv, guild, nicks>>

\* Lines 155-157: the target is the guild's owner.
NickOwner(t) ==
    /\ pc[t] = "nick_loop"
    /\ nk[t].k < Len(nk[t].targets)
    /\ Target(t).id = guild.owner_id
    /\ nk' = [nk EXCEPT ![t].failed =
                 Append(@, <<nicks[Target(t).id], "Server owner (cannot change)">>),
                        ![t].k = @ + 1]
    /\ UNCHANGED <<now, relayvars, pc, inv, resp, wake, ninv, guild, nicks>>

\* Lines 159-161: the bot's top role is not above the target's.
NickHierarchy(t) ==
    /\ pc[t] = "nick_loop"
    /\ nk[t].k < Len(nk[t].targets)
    /\ Target(t).id # guild.owner_id
    /\ GetBotMember(guild)[1].rank <= Target(t).rank
    /\ nk' = [nk EXCEPT ![t].failed =
                 Append(@, <<nicks[Target(t).id], "Role is equal or higher than bot">>),
                        ![t].k = @ + 1]
    /\ UNCHANGED <<now, relayvars, pc, inv, resp, wake, ninv, guild, nicks>>

\* Faulty variant: `<` for `<=`, a target of the bot's own rank is edited.
NickEdit_Lenient(t) ==
    /\ pc[t] = "nick_loop"
    /\ nk[t].k < Len(nk[t].targets)
    /\ Target(t).id # guild.owner_id
    /\ GetBotMember(guild)[1].rank >= Target(t).rank
    /\ nk' = [nk EXCEPT ![t].edits = Append(@, Target(t).id)]
    /\ pc' = [pc EXCEPT ![t] = "nick_edit"]
    /\ UNCHANGED <<now, relayvars, inv, resp, wake, ninv, guild, nicks>>

\* Line 163: m.edit is called.
NickEdit(t) ==
    /\ pc[t] = "nick_loop"
    /\ nk[t].k < Len(nk[t].targets)
    /\ Target(t).id # guild.owner_id
    /\ GetBotMember(guild)[1].rank > Target(t).rank
    /\ nk' = [nk EXCEPT ![t].edits = Append(@, Target(t).id)]
    /\ pc' = [pc EXCEPT ![t] = "nick_edit"]
    /\ UNCHANGED <<now, relayvars, inv, resp, wake, ninv, guild, nicks>>

\* Line 163 returns: line 164, then line 169 starts the sleep.
NickEditOk(t) ==
    /\ pc[t] = "nick_edit"
    /\ Target(t).edit = "ok"
    /\ nicks' = [nicks EXCEPT ![Target(t).id] = inv[t].args.nickname]
    /\ nk' = [nk EXCEPT ![t].success =
                 Append(@, IF Target(t).fresh THEN inv[t].args.nickname
                           ELSE nicks[Target(t).id])]
    /\ pc' = [pc EXCEPT ![t] = "nick_sleep"]
    /\ wake' = [wake EXCEPT ![t] = now + NickDelayTicks]
    /\ UNCHANGED <<now, relayvars, inv, resp, ninv, guild>>

\* Faulty variant: a denied edit is not recorded.
NickEditForbidden_Dropped(t) ==
    /\ pc[t] = "nick_edit"
    /\ Target(t).edit = "Forbidden"
    /\ pc' = [pc EXCEPT ![t] = "nick_sleep"]
    /\ wake' = [wake EXCEPT ![t] = now + NickDelayTicks]
    /\ UNCHANGED <<now, relayvars, inv, resp, ninv, guild, nicks, nk>>

\* Line 163 raises discord.Forbidden: lines 165-166, then line 169.
NickEditForbidden(t) ==
    /\ pc[t] = "nick_edit"
    /\ Target(t).edit = "Forbidden"
    /\ nk' = [nk EXCEPT ![t].failed = Append(@, <<nicks[Target(t).id], "Forbidden">>)]
    /\ pc' = [pc EXCEPT ![t] = "nick_sleep"]
    /\ wake' = [wake EXCEPT ![t] = now + NickDelayTicks]
    /\ UNCHANGED <<now, relayvars, inv, resp, ninv, guild, nicks>>

\* Faulty variant: an error of m.edit ends the batch with an error response.
NickEditError_Abort(t) ==
    /\ pc[t] = "nick_edit"
    /\ Target(t).edit \notin {"ok", "Forbidden"}
    /\ resp' = [resp EXCEPT ![t] = Append(@, Response("failed", 0, Target(t).edit))]
    /\ pc' = [pc EXCEPT ![t] = "done"]
    /\ UNCHANGED <<now, relayvars, inv, wake, ninv, guild, nicks, nk>>

\* Line 163 raises another exception: lines 167-168, then line 169.
NickEditError(t) ==
    /\ pc[t] = "nick_edit"
    /\ Target(t).edit \notin {"ok", "Forbidden"}
    /\ nk' = [nk EXCEPT ![t].failed =
                 Append(@, <<nicks[Target(t).id], "Error: " \o Target(t).edit>>)]
    /\ pc' = [pc EXCEPT ![t] = "nick_sleep"]
    /\ wake' = [wake EXCEPT ![t] = now + NickDelayTicks]
    /\ UNCHANGED <<now, relayvars, inv, resp, ninv, guild, nicks>>

\* Line 169 returns: the loop goes on to the next target.
NickWake(t) ==
    /\ pc[t] = "nick_sleep"
    /\ now >= wake[t]
    /\ nk' = [nk EXCEPT ![t].naps = Append(@, Target(t).id), ![t].k = @ + 1]
    /\ pc' = [pc EXCEPT ![t] = "nick_loop"]
    /\ wake' = [wake EXCEPT ![t] = 0]
    /\ UNCHANGED <<now, relayvars, inv, resp, ninv, guild, nicks>>

\* Lines 171-177: the loop is over, the summary is sent.
NickFinish(t) ==
    /\ pc[t] = "nick_loop"
    /\ nk[t].k = Len(nk[t].targets)
    /\ resp' = [resp EXCEPT ![t] = Append(@,
                  [kind |-> "summary", n |-> Len(nk[t].success), detail |-> "",
                   failed |-> Len(nk[t].failed),
                   names |-> FirstN(nk[t].success, MAX_NAMES_SHOWN),
                   lines |-> FirstN(nk[t].failed, MAX_FAILS_SHOWN)])]
    /\ pc' = [pc EXCEPT ![t] = "done"]
    /\ UNCHANGED <<now, relayvars, inv, wake, ninv, nickvars>>

\* The coroutine returns; its locals are gone.
Return(t) ==
    /\ pc[t] = "done"
    /\ pc' = [pc EXCEPT ![t] = "idle"]
    /\ inv' = [inv EXCEPT ![t] = NoInv]
    /\ msgs' = [msgs EXCEPT ![t] = <<>>]
    /\ idx' = [idx EXCEPT ![t] = 0]
    /\ sent' = [sent EXCEPT ![t] = <<>>]
    /\ exc' = [exc EXCEPT ![t] = ""]
    /\ resp' = [resp EXCEPT ![t] = <<>>]
    /\ nk' = [nk EXCEPT ![t] = NoBatch]
    /\ UNCHANGED <<now, user_last, guild_last, wake, ninv, guild, nicks>>

\* The clock moves on by d ticks while every coroutine is suspended or none
\* runs; a coroutine that has sent its last response returns without waiting.
Advance(d) ==
    /\ now + d <= MaxClock
    /\ \A t \in DOMAIN pc : pc[t] \notin {"done", "nick_loop"}
    /\ now' = now + d
    /\ UNCHANGED <<user_last, guild_last, pc, inv, msgs, idx, sent, exc, resp, wake, ninv, nickvars>>

(***************************************************************************)
(* Properties                                                              *)
(***************************************************************************)
\* The step on which task t's sendms invocation runs its cooldown check.
SendmsChecks(t) == pc[t] = "idle" /\ pc'[t] # "idle" /\ inv'[t].cmd = "sendms"

\* Scope key `key` of map d was recorded less than `secs` seconds ago.
Active(d, key, secs) == key \in DOMAIN d /\ now < d[key] + secs * TicksPerSec

LastResp(t) == resp[t][Len(resp[t])]

\* ceil of a number of ticks, in seconds
CeilSecs(ticks) == (ticks + TicksPerSec - 1) \div TicksPerSec

IsBlankStr(s) == \A i \in 1..Len(s) : s[i][1] \in Whitespace
NullOrBlank(m) == m = NoStr \/ IsBlankStr(m[1])
NotNullOrBlank(m) == ~NullOrBlank(m)
AllBlank(args) == \A i \in 1..Len(args) : NullOrBlank(args[i])

\* p is the string made of the first units of s, up to `limit` of them
FirstUnits(p, s, limit) ==
    /\ Len(p) <= Len(s)
    /\ \A i \in 1..Len(p) :
          /\ p[i][1] = s[i][1]
          /\ IF i < Len(p) THEN p[i][2] = s[i][2] ELSE p[i][2] <= s[i][2]
    /\ StrLen(p) = (IF StrLen(s) < limit THEN StrLen(s) ELSE limit)

\* C1: a sendms invocation by a user whose last fully successful relay was
\* recorded less than 20 seconds before its cooldown check is rejected with a
\* cooldown message naming a positive number of seconds, and sends nothing.
C1_UserWindowRejects ==
    [][\A t \in DOMAIN pc :
          (SendmsChecks(t) /\ Active(user_last, inv'[t].uid, USER_COOLDOWN_SECS))
          => /\ pc'[t] = "done"
             /\ Len(resp'[t]) = 1
             /\ resp'[t][1].kind = "user_cooldown"
             /\ resp'[t][1].n > 0
             /\ sent'[t] = <<>>]_vars

\* C2: a sendms invocation goes on to send only if, at its cooldown check,
\* neither the user's 20 s window nor the guild's 5 s window is running; an
\* invocation checked inside either window is rejected and sends nothing.
C2_BothScopesGuard ==
    [][\A t \in DOMAIN pc :
          (SendmsChecks(t)
             /\ \/ Active(user_last, inv'[t].uid, USER_COOLDOWN_SECS)
                \/ Active(guild_last, OrZero(inv'[t].guild_id), GUILD_COOLDOWN_SECS))
          => /\ pc'[t] = "done"
             /\ Len(resp'[t]) = 1
             /\ resp'[t][1].kind \in {"user_cooldown", "guild_cooldown"}
             /\ sent'[t] = <<>>]_vars

\* Task t's step is the one on which its last send returns.
AllSent(t) ==
    /\ pc[t] = "send" /\ pc'[t] = "done"
    /\ exc'[t] = ""
    /\ msgs[t] # <<>> /\ sent'[t] = msgs[t]

\* The step sets the user entry and the guild entry of task t's invocation
\* to the clock, and nothing else in either map.
RecordsBoth(t) ==
    LET u == inv[t].uid
        g == OrZero(inv[t].guild_id)
    IN  /\ DOMAIN user_last' = DOMAIN user_last \cup {u}
        /\ user_last'[u] = now
        /\ \A k \in DOMAIN user_last \ {u} : user_last'[k] = user_last[k]
        /\ DOMAIN guild_last' = DOMAIN guild_last \cup {g}
        /\ guild_last'[g] = now
        /\ \A k \in DOMAIN guild_last \ {g} : guild_last'[k] = guild_last[k]

\* C3: the cooldown maps change only on the step on which every send of an
\* invocation has succeeded, and that step sets both the user entry and the
\* guild entry; every other step (check, rejection, failed send) leaves both.
C3_MapsChangeOnlyOnFullSuccess ==
    [][/\ (user_last' # user_last \/ guild_last' # guild_last)
            => \E t \in DOMAIN pc : AllSent(t) /\ RecordsBoth(t)
       /\ \A t \in DOMAIN pc : AllSent(t) => RecordsBoth(t)]_vars

C3_Witness ==
    \E t \in DOMAIN pc :
        /\ pc[t] = "done" /\ LastResp(t).kind = "sent"
        /\ Len(sent[t]) >= 2
        /\ inv[t].uid \in DOMAIN user_last /\ user_last[inv[t].uid] = now
        /\ OrZero(inv[t].guild_id) \in DOMAIN guild_last
        /\ guild_last[OrZero(inv[t].guild_id)] = now

C4_State ==
    \A t \in DOMAIN pc :
        (pc[t] = "done" /\ exc[t] # "")
        => /\ idx[t] < Len(msgs[t])
           /\ sent[t] = SubSeq(msgs[t], 1, idx[t])
           /\ Len(resp[t]) = 2
           /\ resp[t][1].kind = "sending"
           /\ IF exc[t] = "Forbidden"
              THEN resp[t][2].kind = "forbidden"
              ELSE resp[t][2].kind = "failed" /\ resp[t][2].detail = exc[t]

C4_Step ==
    \A t \in DOMAIN pc :
        exc[t] # "" => \/ pc'[t] = "done" /\ sent'[t] = sent[t]
                       \/ pc'[t] = "idle" /\ sent'[t] = <<>>

\* C4: when the send of payload i (0-based) fails, exactly payloads 0..i-1
\* were delivered, the invocation sends nothing more, and the user gets the
\* permission message for a permission denial and the generic failure message
\* with the error detail otherwise.
C4_FailureAbortsBatch == []C4_State /\ [][C4_Step]_vars

C4_Witness ==
    \E t \in DOMAIN pc :
        /\ pc[t] = "done" /\ exc[t] = "Forbidden"
        /\ Len(msgs[t]) = 3 /\ idx[t] = 1
        /\ Len(sent[t]) = 1
        /\ LastResp(t).kind = "forbidden"

\* C5: when all sends succeed, the messages delivered are, in submitted
\* order, the payloads that are neither null nor blank, each cut to its first
\* 2000 units.
C5_DeliveredIsNormalizedInput ==
    \A t \in DOMAIN pc :
        (pc[t] = "done" /\ inv[t].cmd = "sendms" /\ LastResp(t).kind = "sent")
        => LET kept == SelectSeq(inv[t].args, NotNullOrBlank)
           IN  /\ Len(sent[t]) = Len(kept)
               /\ \A i \in 1..Len(kept) : FirstUnits(sent[t][i], kept[i][1], MAX_MSG_LEN)

C5_Witness ==
    \E t \in DOMAIN pc :
        /\ pc[t] = "done" /\ LastResp(t).kind = "sent"
        /\ \E i \in 1..3 : NullOrBlank(inv[t].args[i])
        /\ \E i \in 1..3 : inv[t].args[i] # NoStr /\ StrLen(inv[t].args[i][1]) > MAX_MSG_LEN
        /\ \E i \in 1..3 : inv[t].args[i] = Some(HELLO)

\* The effects every sendms invocation with only null or blank payloads has.
BlankHasNoEffect(t) ==
    /\ pc'[t] = "done"
    /\ sent'[t] = <<>>
    /\ user_last' = user_last /\ guild_last' = guild_last
    /\ Len(resp'[t]) = 1

\* C6 as stated: an invocation whose payloads are all null or blank answers
\* with the 'no valid messages' response and has no side effect.
C6_BlankAnswersNoValid ==
    [][\A t \in DOMAIN pc :
          (SendmsChecks(t) /\ AllBlank(inv'[t].args))
          => BlankHasNoEffect(t) /\ resp'[t][1].kind = "no_valid"]_vars

\* C6 amended: an invocation whose payloads are all null or blank sends no
\* message, issues no 'Sending' acknowledgement and leaves the cooldown maps;
\* it answers with the 'no valid messages' response unless the cooldown check,
\* which comes first, rejects it with a cooldown message.
C6_BlankNoSideEffect ==
    [][\A t \in DOMAIN pc :
          (SendmsChecks(t) /\ AllBlank(inv'[t].args))
          => /\ BlankHasNoEffect(t)
             /\ resp'[t][1].kind \in {"no_valid", "user_cooldown", "guild_cooldown"}
             /\ (resp'[t][1].kind = "no_valid")
                  <=> (~Truthy(is_on_user_cooldown(inv'[t].uid))
                       /\ ~Truthy(is_on_guild_cooldown(OrZero(inv'[t].guild_id))))]_vars

C6_Witness ==
    \E t \in DOMAIN pc :
        /\ pc[t] = "done" /\ inv[t].cmd = "sendms"
        /\ inv[t].args = <<Some(BLANKS), NoStr, Some(EMPTY)>>
        /\ resp[t] = <<Response("no_valid", 0, "")>>
        /\ sent[t] = <<>>

\* C7: the cooldown check of a scope key with no recorded action returns
\* none, whatever the clock reads.
C7_UnseenKeyIsClear ==
    /\ \A u \in Users \ DOMAIN user_last : is_on_user_cooldown(u) = None
    /\ \A g \in {OrZero(x) : x \in GuildIds} \ DOMAIN guild_last :
          is_on_guild_cooldown(g) = None

\* C8: for a key recorded at time t with window w, the check at clock
\* t + w - 1 s returns a positive value and the check at t + w or later
\* returns none.
C8_WindowEdges ==
    /\ \A u \in DOMAIN user_last :
          /\ now = user_last[u] + (USER_COOLDOWN_SECS - 1) * TicksPerSec
               => is_on_user_cooldown(u) > 0
          /\ now >= user_last[u] + USER_COOLDOWN_SECS * TicksPerSec
               => is_on_user_cooldown(u) = None
    /\ \A g \in DOMAIN guild_last :
          /\ now = guild_last[g] + (GUILD_COOLDOWN_SECS - 1) * TicksPerSec
               => is_on_guild_cooldown(g) > 0
          /\ now >= guild_last[g] + GUILD_COOLDOWN_SECS * TicksPerSec
               => is_on_guild_cooldown(g) = None

C8_Witness ==
    \E u \in DOMAIN user_last, g \in DOMAIN guild_last :
        /\ now = user_last[u] + (USER_COOLDOWN_SECS - 1) * TicksPerSec
        /\ now >= guild_last[g] + GUILD_COOLDOWN_SECS * TicksPerSec
        /\ \E h \in DOMAIN guild_last :
              now = guild_last[h] + (GUILD_COOLDOWN_SECS - 1) * TicksPerSec

\* C9: whenever remaining = window - (now - last) is positive, the check
\* returns ceil(remaining), a positive integer the caller takes as 'on
\* cooldown'.
C9_ReturnsCeiling ==
    /\ \A u \in DOMAIN user_last :
          LET remaining == USER_COOLDOWN_SECS * TicksPerSec - (now - user_last[u])
          IN  remaining > 0 => /\ is_on_user_cooldown(u) = CeilSecs(remaining)
                               /\ Truthy(is_on_user_cooldown(u))
    /\ \A g \in DOMAIN guild_last :
          LET remaining == GUILD_COOLDOWN_SECS * TicksPerSec - (now - guild_last[g])
          IN  remaining > 0 => /\ is_on_guild_cooldown(g) = CeilSecs(remaining)
                               /\ Truthy(is_on_guild_cooldown(g))

\* A member of the guild is the bot's own and holds manage-nicknames.
BotCanManage ==
    \E j \in 1..Len(guild.members) :
        guild.members[j].id = BOT_ID /\ guild.members[j].perm

\* The invocation of task t (in the primed state when `after`) must fail fast.
C10_Rejected(i) ==
    \/ i.guild_id = NoGuild
    \/ ~i.args.actor_perm /\ i.uid # guild.owner_id
    \/ ~BotCanManage

C10_State ==
    \A t \in DOMAIN pc :
        (inv[t].cmd = "changenick" /\ pc[t] # "idle")
        => /\ C10_Rejected(inv[t])
              => /\ pc[t] = "done"
                 /\ Len(resp[t]) = 1
                 /\ resp[t][1].kind \in {"guild_only", "need_actor_perm", "need_bot_perm"}
                 /\ nk[t].edits = <<>>
                 /\ nk[t].success = <<>>
           /\ (inv[t].guild_id # NoGuild /\ inv[t].uid = guild.owner_id)
              => resp[t][1].kind # "need_actor_perm"

C10_Step ==
    \A t \in DOMAIN pc :
        (inv'[t].cmd = "changenick" /\ C10_Rejected(inv'[t])) => nicks' = nicks

\* C10: a changenick invocation outside a guild, or by an actor who neither
\* holds manage-nicknames nor owns the guild, or in a guild where the bot's
\* member is missing or lacks manage-nicknames, answers with one error
\* response, without a deferred acknowledgement and without a rename call; a
\* guild owner without the capability is not rejected by the actor check.
C10_FailFast == []C10_State /\ [][C10_Step]_vars

C10_Witness ==
    \E t \in DOMAIN pc :
        /\ pc[t] = "done" /\ inv[t].cmd = "changenick"
        /\ inv[t].guild_id = GUILD_ID
        /\ ~inv[t].args.actor_perm /\ inv[t].uid # guild.owner_id
        /\ inv[t].args.change_many
        /\ BotCanManage
        /\ \E j \in 1..Len(guild.members) : guild.members[j] = Plain(101)
        /\ resp[t] = <<Response("need_actor_perm", 0, "")>>
        /\ nk[t].edits = <<>>

\* Task t runs a nickname batch: the acknowledgement is out, the targets chosen.
InBatch(t) ==
    /\ inv[t].cmd = "changenick"
    /\ \/ pc[t] \in {"nick_loop", "nick_edit", "nick_sleep"}
       \/ pc[t] = "done" /\ LastResp(t).kind = "summary"

BatchDone(t) == inv[t].cmd = "changenick" /\ pc[t] = "done" /\ LastResp(t).kind = "summary"

Min(a, b) == IF a < b THEN a ELSE b

\* The places in guild.members of the members that are no bot and not the bot.
EligibleAt(g) ==
    {j \in 1..Len(g.members) : ~g.members[j].bot /\ g.members[j].id # BOT_ID}

\* The place in guild.members of the i-th such member.
NthEligible(g, i) ==
    CHOOSE j \in EligibleAt(g) : Cardinality({h \in EligibleAt(g) : h < j}) = i - 1

\* The members past the cap: eligible, with MAX_CHANGE eligible ones before.
PastCap(g) ==
    {g.members[j] : j \in {h \in EligibleAt(g) :
                             Cardinality({e \in EligibleAt(g) : e < h}) >= MAX_CHANGE}}

Names(failed) == {failed[i][1] : i \in 1..Len(failed)}
Reported(t) == {nk[t].success[i] : i \in 1..Len(nk[t].success)} \cup Names(nk[t].failed)
Edited(t) == {nk[t].edits[i] : i \in 1..Len(nk[t].edits)}

\* C11: with change_many, the targets are the first 50 (all, if fewer) members
\* that are no bot and not the bot itself, in the order of guild.members; when
\* the batch is over exactly that many were processed; a member past the cap
\* is never edited, keeps its name, and is in neither succeeded nor failed.
C11_FirstFiftyEligible ==
    \A t \in DOMAIN pc :
        (InBatch(t) /\ inv[t].args.change_many)
        => /\ Len(nk[t].targets) = Min(MAX_CHANGE, Cardinality(EligibleAt(guild)))
           /\ \A i \in 1..Len(nk[t].targets) :
                 nk[t].targets[i] = guild.members[NthEligible(guild, i)]
           /\ BatchDone(t)
                => /\ nk[t].k = Len(nk[t].targets)
                   /\ Len(nk[t].success) + Len(nk[t].failed) = Len(nk[t].targets)
           /\ \A m \in PastCap(guild) :
                 /\ m.id \notin Edited(t)
                 /\ nicks[m.id] = DisplayName(m.id)
                 /\ DisplayName(m.id) \notin Reported(t)

C11_Witness ==
    \E t \in DOMAIN pc :
        /\ BatchDone(t) /\ inv[t].args.change_many
        /\ Cardinality(EligibleAt(guild)) = MAX_CHANGE + BigExtra
        /\ Len(guild.members) > Cardinality(EligibleAt(guild)) + 1
        /\ Len(nk[t].success) + Len(nk[t].failed) = MAX_CHANGE
        /\ PastCap(guild) # {}


\* The targets of task t's batch the loop is through with.
Processed(t) == SubSeq(nk[t].targets, 1, nk[t].k)

IsOwner(m) == m.id = guild.owner_id
IsOwnerLine(line) == line[2] = "Server owner (cannot change)"

\* C12: in a nickname batch, every processed target that is the guild's owner
\* has its line in failed, with the owner reason, whatever its role rank and
\* its place among the targets; the owner is never edited, keeps its name and
\* is not in succeeded.
C12_OwnerAlwaysFails ==
    \A t \in DOMAIN pc :
        InBatch(t)
        => /\ guild.owner_id \notin Edited(t)
           /\ Len(SelectSeq(nk[t].failed, IsOwnerLine)) = Len(SelectSeq(Processed(t), IsOwner))
           /\ \A i \in 1..Len(nk[t].failed) :
                 IsOwnerLine(nk[t].failed[i]) => nk[t].failed[i][1] = DisplayName(guild.owner_id)
           /\ guild.owner_id \in DOMAIN nicks
                => /\ nicks[guild.owner_id] = DisplayName(guild.owner_id)
                   /\ DisplayName(guild.owner_id)
                        \notin {nk[t].success[i] : i \in 1..Len(nk[t].success)}

C12_Witness ==
    \E t \in DOMAIN pc :
        /\ BatchDone(t)
        /\ Len(nk[t].targets) = 2
        /\ nk[t].targets[2] = Plain(guild.owner_id)
        /\ nk[t].edits = <<nk[t].targets[1].id>>
        /\ nk[t].failed = << <<DisplayName(guild.owner_id), "Server owner (cannot change)">> >>
        /\ Len(nk[t].success) = 1


\* The top role position of the bot's member in the guild.
BotRankIn(g) ==
    CHOOSE r \in {g.members[j].rank : j \in 1..Len(g.members)} :
        \E j \in 1..Len(g.members) : g.members[j].id = BOT_ID /\ g.members[j].rank = r

\* A target that is not the owner and that the bot's top role is not above.
IsOutranking(m) == m.id # guild.owner_id /\ ~(BotRankIn(guild) > m.rank)
IsHierarchyLine(line) == line[2] = "Role is equal or higher than bot"

\* C13: in a nickname batch, m.edit is called only for targets that are not the
\* owner and whose top role is strictly below the bot's; every processed target
\* that is not the owner and whose top role is equal to or above the bot's has
\* its line in failed with the hierarchy reason, under its unchanged name.
C13_EditOnlyBelowBot ==
    \A t \in DOMAIN pc :
        InBatch(t)
        => /\ \A i \in 1..Len(nk[t].targets) :
                 nk[t].targets[i].id \in Edited(t)
                 => /\ nk[t].targets[i].id # guild.owner_id
                    /\ BotRankIn(guild) > nk[t].targets[i].rank
           /\ Len(SelectSeq(nk[t].failed, IsHierarchyLine))
                = Len(SelectSeq(Processed(t), IsOutranking))
           /\ \A i \in 1..Len(nk[t].targets) :
                 IsOutranking(nk[t].targets[i])
                 => nicks[nk[t].targets[i].id] = DisplayName(nk[t].targets[i].id)
           /\ \A i \in 1..Len(nk[t].failed) :
                 IsHierarchyLine(nk[t].failed[i])
                 => \E j \in 1..nk[t].k :
                       /\ IsOutranking(nk[t].targets[j])
                       /\ nk[t].failed[i][1] = DisplayName(nk[t].targets[j].id)

C13_Witness ==
    \E t \in DOMAIN pc :
        /\ BatchDone(t)
        /\ Len(nk[t].targets) = 2
        /\ nk[t].targets[1].rank = BotRankIn(guild)
        /\ nk[t].targets[1].id # guild.owner_id
        /\ nk[t].failed = << <<DisplayName(nk[t].targets[1].id),
                               "Role is equal or higher than bot">> >>
        /\ nk[t].edits = <<nk[t].targets[2].id>>
        /\ nicks[nk[t].targets[2].id] = inv[t].args.nickname


\* What becomes of a target: bypassed, refused by the platform, or renamed.
EndsFailed(m) == IsOwner(m) \/ IsOutranking(m) \/ m.edit # "ok"
EndsRenamed(m) == ~EndsFailed(m)

Reasons(failed) == {failed[i][2] : i \in 1..Len(failed)}

\* C14: between two targets and when the batch is over, succeeded holds one
\* name for each processed target that was renamed and failed one line for
\* each processed target that was not, both in the order of the targets; the
\* two lengths add up to the number of processed targets.
C14_SucceededFailedPartition ==
    \A t \in DOMAIN pc :
        (InBatch(t) /\ pc[t] \in {"nick_loop", "done"})
        => LET renamed == SelectSeq(Processed(t), EndsRenamed)
               refused == SelectSeq(Processed(t), EndsFailed)
           IN  /\ Len(nk[t].success) + Len(nk[t].failed) = nk[t].k
               /\ Len(nk[t].success) = Len(renamed)
               /\ Len(nk[t].failed) = Len(refused)
               /\ \A i \in 1..Len(renamed) :
                     renamed[i].fresh => nk[t].success[i] = inv[t].args.nickname
               /\ \A i \in 1..Len(renamed) :
                     nk[t].success[i] \in {DisplayName(renamed[i].id)} \cup Nicknames
               /\ \A i \in 1..Len(refused) :
                     nk[t].failed[i][1] = DisplayName(refused[i].id)
               /\ BatchDone(t) => nk[t].k = Len(nk[t].targets)

C14_Witness ==
    \E t \in DOMAIN pc :
        /\ BatchDone(t)
        /\ Len(nk[t].targets) = MAX_CHANGE
        /\ Reasons(nk[t].failed) = {"Server owner (cannot change)",
                                    "Role is equal or higher than bot",
                                    "Forbidden", "Error: HTTPException"}
        /\ Len(nk[t].success) > 0
        /\ Len(nk[t].success) + Len(nk[t].failed) = MAX_CHANGE


\* shown is the first min(cap, Len(all)) entries of all, in order
IsPrefixUpTo(shown, all, cap) ==
    /\ Len(shown) = Min(cap, Len(all))
    /\ \A i \in 1..Len(shown) : shown[i] = all[i]

\* C15: a batch answers the deferred acknowledgement with nothing until it is
\* over and then with one summary, which gives the full number of succeeded
\* and of failed targets, the first min(20, succeeded) names and the first
\* min(40, failed) lines, in batch order.
C15_SummaryCountsAndCaps ==
    \A t \in DOMAIN pc :
        InBatch(t)
        => /\ resp[t][1].kind = "defer"
           /\ Len(resp[t]) = (IF pc[t] = "done" THEN 2 ELSE 1)
           /\ BatchDone(t)
                => /\ resp[t][2].n = Len(nk[t].success)
                   /\ resp[t][2].failed = Len(nk[t].failed)
                   /\ IsPrefixUpTo(resp[t][2].names, nk[t].success, MAX_NAMES_SHOWN)
                   /\ IsPrefixUpTo(resp[t][2].lines, nk[t].failed, MAX_FAILS_SHOWN)

C15_Witness ==
    \E t \in DOMAIN pc :
        /\ BatchDone(t)
        /\ resp[t][2].n > MAX_NAMES_SHOWN
        /\ Len(resp[t][2].names) = MAX_NAMES_SHOWN
        /\ resp[t][2].failed > 0
        /\ Len(resp[t][2].lines) = resp[t][2].failed
        /\ resp[t][2].n + resp[t][2].failed = MAX_CHANGE

\* A summary that leaves failure lines out: more than 40 targets failed.
C15_FailuresCut ==
    \E t \in DOMAIN pc :
        /\ BatchDone(t)
        /\ resp[t][2].failed > MAX_FAILS_SHOWN
        /\ Len(resp[t][2].lines) = MAX_FAILS_SHOWN
        /\ Len(resp[t][2].names) = resp[t][2].n


\* C16: when the loop takes up the next target, the pacing delay
\* (asyncio.sleep(0.25)) has been slept through once for every target before
\* it, in target order, whether that target was renamed, refused by the
\* platform, or bypassed as owner or for its role rank.
C16_DelayAfterEveryTarget ==
    \A t \in DOMAIN pc :
        (InBatch(t) /\ pc[t] = "nick_loop" /\ nk[t].k < Len(nk[t].targets))
        => /\ Len(nk[t].naps) = nk[t].k
           /\ \A i \in 1..nk[t].k : nk[t].naps[i] = nk[t].targets[i].id

\* What the code does: the delay follows the targets m.edit was called for,
\* and no other.
C16_DelayAfterEditsOnly ==
    \A t \in DOMAIN pc :
        (InBatch(t) /\ pc[t] \in {"nick_loop", "done"}) => nk[t].naps = nk[t].edits


\* Task t's batch has its targets and has not yet sent its summary.
Looping(t) ==
    inv[t].cmd = "changenick" /\ pc[t] \in {"nick_loop", "nick_edit", "nick_sleep"}

\* The batch of task t goes through its targets one by one, leaves the loop
\* only past the last target and with the summary, and no nickname it or an
\* earlier batch has set is taken back.
C17_Step ==
    \A t \in DOMAIN pc :
        Looping(t)
        => /\ pc'[t] # "idle"
           /\ nk'[t].targets = nk[t].targets
           /\ nk'[t].k \in {nk[t].k, nk[t].k + 1}
           /\ pc'[t] = "done"
                => (nk[t].k = Len(nk[t].targets) /\ LastResp(t)'.kind = "summary")
           /\ \A i \in DOMAIN nicks :
                 nicks[i] \in Nicknames => nicks'[i] = nicks[i]

\* C17: once a batch has started, no failure on a target (owner, role rank,
\* Forbidden, another error) stops it: the targets are gone through in order,
\* nicknames already set stay, and the batch gets to its summary with every
\* target processed.
C17_BatchRunsToSummary ==
    /\ [][C17_Step]_vars
    /\ Looping(1) ~> (BatchDone(1) /\ nk[1].k = Len(nk[1].targets))

\* a batch that is over, in which a renamed target follows failed ones of
\* every kind
C17_Witness ==
    /\ BatchDone(1)
    /\ nk[1].k = Len(nk[1].targets)
    /\ Reasons(nk[1].failed) = {"Server owner (cannot change)",
                                "Role is equal or higher than bot",
                                "Forbidden", "Error: HTTPException"}
    /\ \E i \in 1..Len(nk[1].targets) :
          /\ i > MAX_CHANGE - 10
          /\ nk[1].targets[i].id \in Edited(1)
          /\ nicks[nk[1].targets[i].id] = inv[1].args.nickname
    /\ \A i \in 1..Len(nk[1].targets) :
          nk[1].targets[i].id \in Edited(1) /\ nk[1].targets[i].edit = "ok"
          => nicks[nk[1].targets[i].id] = inv[1].args.nickname


\* Task t's sendms invocation is between its cooldown check and its return
\* from the last send.
InFlight(t) == inv[t].cmd = "sendms" /\ pc[t] \in {"send", "sleep"}

\* C18: a sendms invocation whose user and guild have no recorded action
\* inside their windows passes the cooldown check and records nothing on that
\* step, also while another invocation of the same user or guild has passed
\* its own check and is still sending: so two invocations of one user in one
\* guild can both send in one window.
C18_InFlightDoesNotBlock ==
    [][\A t \in DOMAIN pc :
          (/\ SendmsChecks(t)
           /\ ~Active(user_last, inv'[t].uid, USER_COOLDOWN_SECS)
           /\ ~Active(guild_last, OrZero(inv'[t].guild_id), GUILD_COOLDOWN_SECS))
          => /\ pc'[t] = "send"
             /\ user_last' = user_last
             /\ guild_last' = guild_last]_vars

\* Two invocations of one user in one guild have both sent all their messages
\* and both just recorded: each passed its check before the other recorded.
C18_Witness ==
    \E t1 \in DOMAIN pc, t2 \in DOMAIN pc :
        /\ t1 # t2
        /\ inv[t1].cmd = "sendms" /\ inv[t2].cmd = "sendms"
        /\ inv[t1].uid = inv[t2].uid /\ inv[t1].guild_id = inv[t2].guild_id
        /\ pc[t1] = "done" /\ LastResp(t1).kind = "sent" /\ sent[t1] # <<>>
        /\ pc[t2] = "done" /\ LastResp(t2).kind = "sent" /\ sent[t2] # <<>>
        /\ user_last[inv[t1].uid] = now


\* Every entry of map d is in d' with a timestamp that is not earlier.
Grows(d, e) == \A k \in DOMAIN d : k \in DOMAIN e /\ e[k] >= d[k]

\* C19: on every step, of any interleaving of sendms invocations, each entry
\* of user_last and of guild_last stays in its map and its timestamp does not
\* go down.
C19_TimestampsNeverDecrease ==
    [][Grows(user_last, user_last') /\ Grows(guild_last, guild_last')]_vars

\* The one guild entry there is was written by an earlier relay of another
\* user and has just been overwritten with a later timestamp.
C19_Witness ==
    \E t \in DOMAIN pc, u \in DOMAIN user_last :
        /\ pc[t] = "done" /\ inv[t].cmd = "sendms" /\ LastResp(t).kind = "sent"
        /\ u # inv[t].uid
        /\ user_last[u] < now
        /\ user_last[inv[t].uid] = now
        /\ DOMAIN guild_last = {OrZero(inv[t].guild_id)}
        /\ guild_last[OrZero(inv[t].guild_id)] = now


\* Task t's invocation is turned down by a cooldown check on this step.
CooldownRejects(t) ==
    /\ pc'[t] = "done"
    /\ Len(resp'[t]) = 1
    /\ resp'[t][1].kind \in {"user_cooldown", "guild_cooldown"}
    /\ sent'[t] = <<>>

\* C20: every sendms invocation outside a guild is checked against, and
\* records under, the guild key 0: while an out-of-guild relay was recorded
\* less than 5 seconds ago, every out-of-guild invocation, of any user, is
\* rejected by a cooldown check and sends nothing.
C20_NoGuildSharesKeyZero ==
    [][\A t \in DOMAIN pc :
          /\ (SendmsChecks(t) /\ inv'[t].guild_id = NoGuild
                /\ Active(guild_last, 0, GUILD_COOLDOWN_SECS))
             => CooldownRejects(t)
          /\ (AllSent(t) /\ inv[t].guild_id = NoGuild)
             => (0 \in DOMAIN guild_last' /\ guild_last'[0] = now)]_vars

\* The part of C20 the code keeps: an invocation in a real guild is rejected by
\* a cooldown check only if its own user's or its own guild's window is
\* running, so relays of other users in other guilds do not block it.
C20_OtherScopesDoNotBlock ==
    [][\A t \in DOMAIN pc :
          (SendmsChecks(t) /\ inv'[t].guild_id # NoGuild /\ CooldownRejects(t))
          => \/ Active(user_last, inv'[t].uid, USER_COOLDOWN_SECS)
             \/ Active(guild_last, inv'[t].guild_id, GUILD_COOLDOWN_SECS)]_vars


(***************************************************************************)
(* Specifications                                                          *)
(***************************************************************************)
InitWith(tasks, clock, g) ==
    /\ guild = g
    /\ nicks = [i \in {g.members[j].id : j \in 1..Len(g.members)} |-> DisplayName(i)]
    /\ nk = [t \in tasks |-> NoBatch]
    /\ now = clock
    /\ user_last = <<>>
    /\ guild_last = <<>>
    /\ pc = [t \in tasks |-> "idle"]
    /\ inv = [t \in tasks |-> NoInv]
    /\ msgs = [t \in tasks |-> <<>>]
    /\ idx = [t \in tasks |-> 0]
    /\ sent = [t \in tasks |-> <<>>]
    /\ exc = [t \in tasks |-> ""]
    /\ resp = [t \in tasks |-> <<>>]
    /\ wake = [t \in tasks |-> 0]
    /\ ninv = 0

\* One invocation at a time, the clock read at every tick.
Init == InitWith({1}, 0, EmptyGuild)

Next ==
    \/ \E u \in Users, g \in GuildIds, m2 \in {NoStr, Some(HELLO)} :
          sendms(1, u, g, Some(HELLO), m2, NoStr)
    \/ SendNext(1)
    \/ SendWake(1)
    \/ SendLast(1)
    \/ SendForbidden(1)
    \/ \E e \in ErrorDetails : SendError(1, e)
    \/ Return(1)
    \/ Advance(1)

Spec == Init /\ [][Next]_vars

\* One invocation at a time with every shape of payload; the bot starts when
\* the loop's clock reads a full user window, and the clock is read a whole
\* window apart.
InitRelay == InitWith({1}, UserWindowTicks, EmptyGuild)

NextRelay ==
    \/ \E g \in GuildIds, m1 \in Payloads, m2 \in OptPayloads, m3 \in OptPayloads :
          sendms(1, 101, g, Some(m1), m2, m3)
    \/ SendNext(1)
    \/ SendWake(1)
    \/ SendLast(1)
    \/ SendForbidden(1)
    \/ \E e \in ErrorDetails : SendError(1, e)
    \/ Return(1)
    \/ \E d \in {GuildWindowTicks, UserWindowTicks} : Advance(d)

SpecRelay == InitRelay /\ [][NextRelay]_vars

\* Two task slots: a second sendms invocation may start while the first is
\* suspended at a send or at a pacing delay.  The clock starts at a full user
\* window and is read a guild window or a user window apart.
InitRace == InitWith({1, 2}, UserWindowTicks, EmptyGuild)

NextRace ==
    \/ \E t \in {1, 2}, u \in Users, g \in GuildIds \cup {OTHER_GUILD_ID},
          m2 \in {NoStr, Some(HELLO)} :
          sendms(t, u, g, Some(HELLO), m2, NoStr)
    \/ \E t \in {1, 2} : SendNext(t)
    \/ \E t \in {1, 2} : SendWake(t)
    \/ \E t \in {1, 2} : SendLast(t)
    \/ \E t \in {1, 2} : SendForbidden(t)
    \/ \E t \in {1, 2}, e \in ErrorDetails : SendError(t, e)
    \/ \E t \in {1, 2} : Return(t)
    \/ \E d \in {GuildWindowTicks, UserWindowTicks} : Advance(d)

SpecRace == InitRace /\ [][NextRace]_vars

\* One /changenick invocation at a time, in every small guild, with every
\* choice of arguments.
InitNick == \E g \in SmallGuilds : InitWith({1}, 0, g)

MemberArgs == {<<>>} \cup {<<guild.members[j]>> : j \in 1..Len(guild.members)}

NextNick ==
    \/ \E u \in {101, 103}, g \in {NoGuild, GUILD_ID}, p \in BOOLEAN,
          n \in Nicknames, m \in MemberArgs, many \in BOOLEAN :
          changenick(1, u, g, p, n, m, many)
    \/ NickBegin(1)
    \/ NickOwner(1)
    \/ NickHierarchy(1)
    \/ NickEdit(1)
    \/ NickEditOk(1)
    \/ NickEditForbidden(1)
    \/ NickEditError(1)
    \/ NickWake(1)
    \/ NickFinish(1)
    \/ Return(1)

SpecNick == InitNick /\ [][NextNick]_vars

\* One change_many batch at a time in the large guilds.
InitBatch == \E g \in BigGuilds : InitWith({1}, 0, g)

NextBatch ==
    \/ \E u \in {101, 103}, n \in Nicknames : changenick(1, u, GUILD_ID, TRUE, n, <<>>, TRUE)
    \/ NickBegin(1)
    \/ NickOwner(1)
    \/ NickHierarchy(1)
    \/ NickEdit(1)
    \/ NickEditOk(1)
    \/ NickEditForbidden(1)
    \/ NickEditError(1)
    \/ NickWake(1)
    \/ NickFinish(1)
    \/ Return(1)

SpecBatch == InitBatch /\ [][NextBatch]_vars

\* What the event loop does for a running batch: an awaited call returns or
\* raises, a sleep ends, and the coroutine is resumed.
BatchSteps ==
    \/ NickBegin(1)
    \/ NickOwner(1)
    \/ NickHierarchy(1)
    \/ NickEdit(1)
    \/ NickEditOk(1)
    \/ NickEditForbidden(1)
    \/ NickEditError(1)
    \/ NickWake(1)
    \/ NickFinish(1)

\* The large guilds, with a batch that is resumed whenever it can go on.
SpecBatchLive == InitBatch /\ [][NextBatch]_vars /\ WF_vars(BatchSteps)
====
